---- MODULE Spec2Model ----
(***************************************************************************)
(* Activity Tracking Engine of the WFH Inactivity Detector (src/app.py).   *)
(*                                                                         *)
(* State: the seven st.session_state fields, the latest reading of         *)
(* time.time() (clock), the page rendered by the latest script run (view)  *)
(* and two history variables: the latest operation (last_call) and the     *)
(* clock readings of the calls that counted an interaction since the       *)
(* latest start (interaction_times).                                       *)
(* Times are whole seconds since the epoch; None is the sentinel -1.       *)
(***************************************************************************)
EXTENDS Integers, Sequences, FiniteSets, TLC

VARIABLES session_started, session_start_time, last_interaction_time,
          total_active_time, total_inactive_time, interaction_count,
          activity_log, clock, view, last_call, interaction_times

state == <<session_started, session_start_time, last_interaction_time,
           total_active_time, total_inactive_time, interaction_count,
           activity_log>>

vars == <<session_started, session_start_time, last_interaction_time,
          total_active_time, total_inactive_time, interaction_count,
          activity_log, clock, view, last_call, interaction_times>>

----
(* Bounds *)

\* largest interaction_count / log length the model lets a session reach
MaxLog == 4

\* largest limit the recent-log query is asked with
MaxLimit == 3

\* the readings time.time() may return, in seconds; each reading is >= the
\* previous one (non-decreasing clock)
Instants == {0, 30, 31, 90, 280, 330, 680}

\* descriptions handed to register_interaction
Descriptions == {<<"Quick Check-in">>, <<"Coffee Break">>}

----
(* Program constants *)

ACTIVE_THRESHOLD == 60

SHORT_BREAK_THRESHOLD == 300

\* Python's None for the two timestamps (every real timestamp is >= 0)
None == -1

\* page of a script run that rendered no metrics
NoView == [rendered |-> FALSE]

----
(* Helpers *)

\* Python truthiness of a float-or-None: None and 0.0 are both falsy
Truthy(x) == x # None /\ x # 0

\* format_time: seconds -> HH:MM:SS, kept as the three numbers printed
format_time(seconds) ==
    LET hours   == seconds \div 3600
        minutes == (seconds % 3600) \div 60
        secs    == seconds % 60
    IN  <<hours, minutes, secs>>

\* datetime.now().strftime("%I:%M:%S %p"): 12-hour time of day
strftime(t) ==
    LET sod == t % 86400
        h24 == sod \div 3600
        h12 == IF h24 % 12 = 0 THEN 12 ELSE h24 % 12
    IN  <<h12, (sod % 3600) \div 60, sod % 60, IF h24 < 12 THEN "AM" ELSE "PM">>

\* get_activity_status with both comparisons made inclusive
get_activity_status_inclusive(inactive_seconds) ==
    IF inactive_seconds <= ACTIVE_THRESHOLD THEN "Active"
    ELSE IF inactive_seconds <= SHORT_BREAK_THRESHOLD THEN "Short Break"
    ELSE "Extended Inactivity"

\* get_activity_status: the status text of the returned tuple
get_activity_status(inactive_seconds) ==
    IF inactive_seconds < ACTIVE_THRESHOLD THEN "Active"
    ELSE IF inactive_seconds < SHORT_BREAK_THRESHOLD THEN "Short Break"
    ELSE "Extended Inactivity"

----
(* Engine operations *)

\* start_work_session that appends to the old log instead of replacing it
start_work_session_keeps_log(current_time) ==
    /\ session_started' = TRUE
    /\ session_start_time' = current_time
    /\ last_interaction_time' = current_time
    /\ total_active_time' = 0
    /\ total_inactive_time' = 0
    /\ interaction_count' = 1
    /\ activity_log' = Append(activity_log,
                           [timestamp |-> strftime(current_time),
                            action    |-> <<"Session Started">>,
                            status    |-> "Active"])

start_work_session(current_time) ==
    /\ session_started' = TRUE
    /\ session_start_time' = current_time
    /\ last_interaction_time' = current_time
    /\ total_active_time' = 0
    /\ total_inactive_time' = 0
    /\ interaction_count' = 1
    /\ activity_log' = << [timestamp |-> strftime(current_time),
                           action    |-> <<"Session Started">>,
                           status    |-> "Active"] >>

\* end_work_session that clears the timestamps but leaves the flag set
end_work_session_keeps_flag ==
    /\ session_start_time' = None
    /\ last_interaction_time' = None
    /\ UNCHANGED <<session_started, total_active_time, total_inactive_time,
                   interaction_count, activity_log>>

\* end_work_session that forgets to clear last_interaction_time
end_work_session_keeps_last ==
    /\ session_started' = FALSE
    /\ session_start_time' = None
    /\ UNCHANGED <<last_interaction_time, total_active_time,
                   total_inactive_time, interaction_count, activity_log>>

\* end_work_session that also zeroes the two totals
end_work_session_clears_totals ==
    /\ session_started' = FALSE
    /\ session_start_time' = None
    /\ last_interaction_time' = None
    /\ total_active_time' = 0
    /\ total_inactive_time' = 0
    /\ UNCHANGED <<interaction_count, activity_log>>

end_work_session ==
    /\ session_started' = FALSE
    /\ session_start_time' = None
    /\ last_interaction_time' = None
    /\ UNCHANGED <<total_active_time, total_inactive_time,
                   interaction_count, activity_log>>

\* register_interaction whose inline comparisons are inclusive
register_interaction_inclusive(action_description, current_time) ==
    /\ IF Truthy(last_interaction_time)
       THEN LET time_gap == current_time - last_interaction_time
                status   == IF time_gap <= ACTIVE_THRESHOLD THEN "Active"
                            ELSE IF time_gap <= SHORT_BREAK_THRESHOLD
                                 THEN "Short Break"
                                 ELSE "Extended Inactivity"
            IN  /\ total_active_time' =
                     IF time_gap <= ACTIVE_THRESHOLD
                     THEN total_active_time + time_gap
                     ELSE total_active_time
                /\ total_inactive_time' =
                     IF time_gap <= ACTIVE_THRESHOLD
                     THEN total_inactive_time
                     ELSE total_inactive_time + time_gap
                /\ activity_log' = Append(activity_log,
                     [timestamp |-> strftime(current_time),
                      action    |-> action_description,
                      status    |-> status,
                      gap       |-> format_time(time_gap)])
       ELSE UNCHANGED <<total_active_time, total_inactive_time, activity_log>>
    /\ last_interaction_time' = current_time
    /\ interaction_count' = interaction_count + 1
    /\ UNCHANGED <<session_started, session_start_time>>

\* register_interaction that also stamps session_start_time
register_interaction_moves_start(action_description, current_time) ==
    /\ IF Truthy(last_interaction_time)
       THEN LET time_gap == current_time - last_interaction_time
                status   == IF time_gap < ACTIVE_THRESHOLD THEN "Active"
                            ELSE IF time_gap < SHORT_BREAK_THRESHOLD
                                 THEN "Short Break"
                                 ELSE "Extended Inactivity"
            IN  /\ total_active_time' =
                     IF time_gap < ACTIVE_THRESHOLD
                     THEN total_active_time + time_gap
                     ELSE total_active_time
                /\ total_inactive_time' =
                     IF time_gap < ACTIVE_THRESHOLD
                     THEN total_inactive_time
                     ELSE total_inactive_time + time_gap
                /\ activity_log' = Append(activity_log,
                     [timestamp |-> strftime(current_time),
                      action    |-> action_description,
                      status    |-> status,
                      gap       |-> format_time(time_gap)])
       ELSE UNCHANGED <<total_active_time, total_inactive_time, activity_log>>
    /\ last_interaction_time' = current_time
    /\ session_start_time' = current_time
    /\ interaction_count' = interaction_count + 1
    /\ UNCHANGED session_started

\* register_interaction with the gap subtracted the wrong way round
register_interaction_reversed_gap(action_description, current_time) ==
    /\ IF Truthy(last_interaction_time)
       THEN LET time_gap == last_interaction_time - current_time
                status   == IF time_gap < ACTIVE_THRESHOLD THEN "Active"
                            ELSE IF time_gap < SHORT_BREAK_THRESHOLD
                                 THEN "Short Break"
                                 ELSE "Extended Inactivity"
            IN  /\ total_active_time' =
                     IF time_gap < ACTIVE_THRESHOLD
                     THEN total_active_time + time_gap
                     ELSE total_active_time
                /\ total_inactive_time' =
                     IF time_gap < ACTIVE_THRESHOLD
                     THEN total_inactive_time
                     ELSE total_inactive_time + time_gap
                /\ activity_log' = Append(activity_log,
                     [timestamp |-> strftime(current_time),
                      action    |-> action_description,
                      status    |-> status,
                      gap       |-> format_time(time_gap)])
       ELSE UNCHANGED <<total_active_time, total_inactive_time, activity_log>>
    /\ last_interaction_time' = current_time
    /\ interaction_count' = interaction_count + 1
    /\ UNCHANGED <<session_started, session_start_time>>

register_interaction(action_description, current_time) ==
    /\ IF Truthy(last_interaction_time)
       THEN LET time_gap == current_time - last_interaction_time
                status   == IF time_gap < ACTIVE_THRESHOLD THEN "Active"
                            ELSE IF time_gap < SHORT_BREAK_THRESHOLD
                                 THEN "Short Break"
                                 ELSE "Extended Inactivity"
            IN  /\ total_active_time' =
                     IF time_gap < ACTIVE_THRESHOLD
                     THEN total_active_time + time_gap
                     ELSE total_active_time
                /\ total_inactive_time' =
                     IF time_gap < ACTIVE_THRESHOLD
                     THEN total_inactive_time
                     ELSE total_inactive_time + time_gap
                /\ activity_log' = Append(activity_log,
                     [timestamp |-> strftime(current_time),
                      action    |-> action_description,
                      status    |-> status,
                      gap       |-> format_time(time_gap)])
       ELSE UNCHANGED <<total_active_time, total_inactive_time, activity_log>>
    /\ last_interaction_time' = current_time
    /\ interaction_count' = interaction_count + 1
    /\ UNCHANGED <<session_started, session_start_time>>

----
(* Read-only queries of the main content block *)

\* number of log entries the page shows
RECENT_LIMIT == 15

\* a quotient kept exact as numerator over denominator
Ratio(n, d) == [num |-> n, den |-> d]

\* activity_log[-n:] without the reversal: the last n entries, oldest first
recent_logs_unreversed(log, n) ==
    LET k == IF Len(log) < n THEN Len(log) ELSE n
    IN  [i \in 1..k |-> log[Len(log) - k + i]]

\* activity_log[-n:][::-1]: the last n entries, newest first
recent_logs(log, n) ==
    LET k == IF Len(log) < n THEN Len(log) ELSE n
    IN  [i \in 1..k |-> log[Len(log) + 1 - i]]

\* metrics that divide without testing total_session_time > 0
metrics_unguarded(current_time) ==
    LET total_session_time == current_time - session_start_time
        time_since_last_interaction == current_time - last_interaction_time
    IN  [rendered |-> TRUE,
         total_session_time |-> total_session_time,
         idle |-> time_since_last_interaction,
         idle_text |-> format_time(time_since_last_interaction),
         current_status |-> get_activity_status(time_since_last_interaction),
         interactions |-> interaction_count,
         productivity |-> Ratio(total_active_time * 100, total_session_time),
         active_percent |-> Ratio(total_active_time, total_session_time),
         inactive_percent |-> Ratio(total_inactive_time, total_session_time)]

\* lines 199-202 and 256-284: the metrics computed for display
metrics(current_time) ==
    LET total_session_time == current_time - session_start_time
        time_since_last_interaction == current_time - last_interaction_time
    IN  [rendered |-> TRUE,
         total_session_time |-> total_session_time,
         idle |-> time_since_last_interaction,
         idle_text |-> format_time(time_since_last_interaction),
         current_status |-> get_activity_status(time_since_last_interaction),
         interactions |-> interaction_count,
         productivity |-> IF total_session_time > 0
                          THEN Ratio(total_active_time * 100, total_session_time)
                          ELSE Ratio(0, 1),
         active_percent |-> IF total_session_time > 0
                            THEN Ratio(total_active_time, total_session_time)
                            ELSE Ratio(0, 1),
         inactive_percent |-> IF total_session_time > 0
                              THEN Ratio(total_inactive_time, total_session_time)
                              ELSE Ratio(0, 1)]

\* the whole page of a run that reaches the activity log (lines 196-357)
render(current_time) ==
    [rendered |-> TRUE,
     metrics |-> metrics(current_time),
     recent |-> recent_logs(activity_log, RECENT_LIMIT),
     total_logged |-> Len(activity_log)]

\* a refresh that treats the poll as an interaction
refresh_touches_last_interaction(current_time) ==
    /\ view' = render(current_time)
    /\ last_interaction_time' = current_time
    /\ UNCHANGED <<session_started, session_start_time, total_active_time,
                   total_inactive_time, interaction_count, activity_log>>

\* the main content block of a run in which no button was clicked
refresh(current_time) ==
    /\ view' = render(current_time)
    /\ UNCHANGED state

----
(* The engine driven as a library: every operation may be called in every  *)
(* state, each call reading the clock once.                                *)

Call(op, arg) == [op |-> op, arg |-> arg, pre_started |-> session_started,
                  pre_len |-> Len(activity_log)]

Init ==
    /\ session_started = FALSE
    /\ session_start_time = None
    /\ last_interaction_time = None
    /\ total_active_time = 0
    /\ total_inactive_time = 0
    /\ interaction_count = 0
    /\ activity_log = <<>>
    /\ clock = 0
    /\ view = NoView
    /\ last_call = [op |-> "init", arg |-> <<>>, pre_started |-> FALSE,
                    pre_len |-> 0]
    /\ interaction_times = <<>>

StartSession ==
    \E t \in Instants :
        /\ t >= clock
        /\ clock' = t
        /\ start_work_session(t)
        /\ view' = NoView
        /\ last_call' = Call("start", <<>>)
        /\ interaction_times' = <<t>>

EndSession ==
    /\ end_work_session
    /\ view' = NoView
    /\ last_call' = Call("end", <<>>)
    /\ UNCHANGED <<clock, interaction_times>>

RegisterInteraction ==
    \E t \in Instants, a \in Descriptions :
        /\ t >= clock
        /\ interaction_count < MaxLog
        /\ clock' = t
        /\ register_interaction(a, t)
        /\ view' = NoView
        /\ last_call' = Call("register", a)
        /\ interaction_times' = Append(interaction_times, t)

Refresh ==
    \E t \in Instants :
        /\ session_started
        /\ t >= clock
        /\ clock' = t
        /\ refresh(t)
        /\ last_call' = Call("refresh", <<>>)
        /\ UNCHANGED interaction_times

Next ==
    \/ StartSession
    \/ EndSession
    \/ RegisterInteraction
    \/ Refresh

Spec == Init /\ [][Next]_vars

----
(* The engine with the recent-log query of line 345 asked with any limit   *)
(* n >= 1 instead of the page's fixed 15.                                  *)

RecentLog ==
    \E n \in 1..MaxLimit :
        /\ view' = [rendered |-> FALSE, limit |-> n,
                    recent |-> recent_logs(activity_log, n)]
        /\ last_call' = Call("recent", <<>>)
        /\ UNCHANGED <<state, clock, interaction_times>>

NextQuery ==
    \/ Next
    \/ RecentLog

SpecQuery == Init /\ [][NextQuery]_vars

----
(* The program as Streamlit runs it: one step is one run of the script,    *)
(* triggered by a click on a widget the previous page showed or by the     *)
(* auto-refresh.  A handler that ends in st.rerun() leaves no page.        *)

\* labels of the quick-action buttons that are clicked: the first and the
\* last of the four, whose handlers differ in the label only
QuickActions == {<<"Coffee Break">>, <<"Reading/Research">>}

\* contents of the task text box, one character per element
TaskInputs == {<<>>, <<" ">>, <<" ", "r">>}

WhiteSpace == {" "}

\* str.strip(): drop leading and trailing whitespace
RECURSIVE lstrip(_)
lstrip(s) == IF s # <<>> /\ Head(s) \in WhiteSpace THEN lstrip(Tail(s)) ELSE s

RECURSIVE rstrip(_)
rstrip(s) == IF s # <<>> /\ s[Len(s)] \in WhiteSpace
             THEN rstrip(SubSeq(s, 1, Len(s) - 1)) ELSE s

\* the test `if task_input:` in place of `if task_input.strip():`
strip_nothing(s) == s

strip(s) == rstrip(lstrip(s))

\* lines 174-179: the Start button exists only when no session is active
UIStart ==
    \E t \in Instants :
        /\ ~session_started
        /\ t >= clock
        /\ clock' = t
        /\ start_work_session(t)
        /\ view' = NoView
        /\ last_call' = Call("start", <<>>)
        /\ interaction_times' = <<t>>

\* lines 180-185
UIEnd ==
    /\ session_started
    /\ end_work_session
    /\ view' = NoView
    /\ last_call' = Call("end", <<>>)
    /\ UNCHANGED <<clock, interaction_times>>

\* lines 187-191
UICheckIn ==
    \E t \in Instants :
        /\ session_started
        /\ t >= clock
        /\ interaction_count < MaxLog
        /\ clock' = t
        /\ register_interaction(<<"Quick Check-in">>, t)
        /\ view' = NoView
        /\ last_call' = Call("register", <<"Quick Check-in">>)
        /\ interaction_times' = Append(interaction_times, t)

\* lines 196-310: the metrics are computed, then Log Task either registers
\* the task and reruns, or warns and lets the run render the rest
UILogTask ==
    \E t \in Instants, task_input \in TaskInputs :
        /\ session_started
        /\ t >= clock
        /\ clock' = t
        /\ IF strip(task_input) # <<>>
           THEN /\ interaction_count < MaxLog
                /\ register_interaction(<<"Task: ">> \o task_input, t)
                /\ view' = NoView
                /\ last_call' = Call("register", <<"Task: ">> \o task_input)
                /\ interaction_times' = Append(interaction_times, t)
           ELSE /\ refresh(t)
                /\ last_call' = Call("warning", task_input)
                /\ UNCHANGED interaction_times

\* lines 312-334
UIQuickAction ==
    \E t \in Instants, a \in QuickActions :
        /\ session_started
        /\ t >= clock
        /\ interaction_count < MaxLog
        /\ clock' = t
        /\ register_interaction(a, t)
        /\ view' = NoView
        /\ last_call' = Call("register", a)
        /\ interaction_times' = Append(interaction_times, t)

\* lines 196-361 with no click
UIRefresh ==
    \E t \in Instants :
        /\ session_started
        /\ t >= clock
        /\ clock' = t
        /\ refresh(t)
        /\ last_call' = Call("refresh", <<>>)
        /\ UNCHANGED interaction_times

NextUI ==
    \/ UIStart
    \/ UIEnd
    \/ UICheckIn
    \/ UILogTask
    \/ UIQuickAction
    \/ UIRefresh

SpecUI == Init /\ [][NextUI]_vars

----
(* Properties *)

Last(seq) == seq[Len(seq)]

IsPrefix(p, q) == Len(p) <= Len(q) /\ \A i \in 1..Len(p) : p[i] = q[i]

\* C1: while a session is Active, total_active_time + total_inactive_time
\* equals the sum of the committed gaps, that is last_interaction_time -
\* session_start_time.
C1_AccountingInvariant ==
    session_started =>
        total_active_time + total_inactive_time
            = last_interaction_time - session_start_time

\* C2: right after StartSession, from any prior state, the session is Active,
\* both timestamps are the current reading, both totals are 0, the count is 1
\* and the log is the single entry 'Session Started' / Active.
C2_StartSessionResets ==
    last_call.op = "start" =>
        /\ session_started = TRUE
        /\ session_start_time = clock
        /\ last_interaction_time = clock
        /\ total_active_time = 0
        /\ total_inactive_time = 0
        /\ interaction_count = 1
        /\ Len(activity_log) = 1
        /\ activity_log[1].action = <<"Session Started">>
        /\ activity_log[1].status = "Active"
        /\ DOMAIN activity_log[1] = {"timestamp", "action", "status"}

\* a start that found an ended session with stale totals and a stale log
C2_Witness ==
    /\ last_call.op = "start"
    /\ ~last_call.pre_started
    /\ last_call.pre_len > 1
    /\ Len(activity_log) = 1

\* C3: a RegisterInteraction in an Active session at now >= last interaction
\* adds the gap to total_active_time when gap < 60 and to total_inactive_time
\* otherwise, leaves the other total alone, appends exactly one entry with the
\* given action and the gap's status, sets last_interaction_time to now and
\* increments interaction_count by 1.
C3_RegisterEffect ==
    [][(last_call'.op = "register" /\ session_started) =>
        LET gap == clock' - last_interaction_time
        IN  /\ gap < 60 =>
                /\ total_active_time' = total_active_time + gap
                /\ total_inactive_time' = total_inactive_time
            /\ gap >= 60 =>
                /\ total_inactive_time' = total_inactive_time + gap
                /\ total_active_time' = total_active_time
            /\ Len(activity_log') = Len(activity_log) + 1
            /\ Last(activity_log').action = last_call'.arg
            /\ Last(activity_log').status =
                 (IF gap < 60 THEN "Active"
                  ELSE IF gap < 300 THEN "Short Break"
                  ELSE "Extended Inactivity")
            /\ last_interaction_time' = clock'
            /\ interaction_count' = interaction_count + 1]_vars

\* C4: RegisterInteraction without an Active session changes no field of the
\* session state.
C4_RegisterWithoutSessionNoOp ==
    [][(last_call'.op = "register" /\ ~session_started) =>
        UNCHANGED state]_vars

C6_ScenarioA ==
    (session_started /\ interaction_times = <<0, 30, 280, 680>>) =>
        /\ total_active_time = 30
        /\ total_inactive_time = 650
        /\ interaction_count = 4
        /\ Len(activity_log) = 4
        /\ activity_log[2].status = "Active"
        /\ activity_log[3].status = "Short Break"
        /\ activity_log[4].status = "Extended Inactivity"

\* C7: a refresh of the page commits nothing: the seven session fields are
\* the same after it as before it.
C7_QueriesDoNotCommit ==
    [][last_call'.op = "refresh" => UNCHANGED state]_vars

\* a refresh that showed Extended Inactivity for a gap no total holds
C7_Witness ==
    /\ last_call.op = "refresh"
    /\ view.rendered
    /\ view.metrics.current_status = "Extended Inactivity"
    /\ total_inactive_time = 0
    /\ Len(activity_log) = 1

\* C8: in an Active session the two totals sum to at most now - startTime,
\* with equality exactly when now = lastInteractionTime, and no displayed
\* fraction exceeds 1.
C8_ElapsedBound ==
    /\ session_started =>
        /\ total_active_time + total_inactive_time
              <= clock - session_start_time
        /\ (total_active_time + total_inactive_time
              = clock - session_start_time)
           <=> (clock = last_interaction_time)
    /\ view.rendered =>
        /\ view.metrics.productivity.num
              <= 100 * view.metrics.productivity.den
        /\ view.metrics.active_percent.num <= view.metrics.active_percent.den
        /\ view.metrics.inactive_percent.num
              <= view.metrics.inactive_percent.den

C10_AppendOnlyLog ==
    [][last_call'.op # "start" =>
        /\ IsPrefix(activity_log, activity_log')
        /\ (last_call'.op = "register" /\ session_started) =>
              Len(activity_log') = Len(activity_log) + 1]_vars

\* C11: while a session stays Active (no StartSession in between) no
\* transition decreases total_active_time or total_inactive_time.
C11_MonotoneAccumulators ==
    [][(session_started /\ last_call'.op # "start") =>
        /\ total_active_time' >= total_active_time
        /\ total_inactive_time' >= total_inactive_time]_vars

\* an interaction of an Active session that found both totals already grown
C11_Witness ==
    /\ last_call.op = "register"
    /\ last_call.pre_started
    /\ session_started
    /\ total_active_time > 0
    /\ total_inactive_time > 0
    /\ Len(activity_log) = 4

Min(a, b) == IF a < b THEN a ELSE b

\* C12: RecentLog(n) of a log of length L has exactly min(n, L) entries, the
\* last min(n, L) entries of the log with the most recent first, and the
\* query leaves the log as it was.
C12_RecentLog ==
    [][last_call'.op = "recent" =>
        LET r == view'.recent
            n == view'.limit
            L == Len(activity_log)
        IN  /\ activity_log' = activity_log
            /\ Len(r) = Min(n, L)
            /\ Len(r) <= n /\ Len(r) <= L
            /\ L > 0 => r[1] = activity_log[L]
            /\ \A i \in 1..Len(r) : r[i] = activity_log[L + 1 - i]
            /\ \A i \in 1..(Len(r) - 1) :
                  \E j, k \in 1..L : /\ j > k
                                     /\ r[i] = activity_log[j]
                                     /\ r[i + 1] = activity_log[k]]_vars

\* a query with a limit below the log's length: it truncates and reverses
C12_Witness ==
    /\ last_call.op = "recent"
    /\ view.limit >= 2
    /\ view.limit < Len(activity_log)
    /\ Len(view.recent) = view.limit
    /\ view.recent[1] = activity_log[Len(activity_log)]

\* C13: metrics computed when now - startTime is 0 show productivity 0 and
\* both fractions 0 and divide by nothing; when it is positive the
\* productivity is 100 * total_active_time / total_session_time.
C13_SessionMetrics ==
    view.rendered =>
        LET m == view.metrics
        IN  /\ m.total_session_time = clock - session_start_time
            /\ m.productivity.den # 0
            /\ m.active_percent.den # 0
            /\ m.inactive_percent.den # 0
            /\ m.total_session_time = 0 =>
                  /\ m.productivity.num = 0
                  /\ m.active_percent.num = 0
                  /\ m.inactive_percent.num = 0
            /\ m.total_session_time > 0 =>
                  /\ m.productivity.num = 100 * total_active_time
                  /\ m.productivity.den = m.total_session_time
                  /\ m.active_percent.num = total_active_time
                  /\ m.active_percent.den = m.total_session_time
                  /\ m.inactive_percent.num = total_inactive_time
                  /\ m.inactive_percent.den = m.total_session_time

\* Scenario B: the page rendered at the clock reading of the start
C13_Witness ==
    /\ view.rendered
    /\ last_call.op = "refresh"
    /\ view.metrics.total_session_time = 0
    /\ clock = session_start_time
    /\ interaction_count = 1

\* an Active session that has just been reset
FreshSession ==
    /\ session_started
    /\ total_active_time = 0
    /\ total_inactive_time = 0
    /\ interaction_count = 1
    /\ Len(activity_log) = 1
    /\ last_interaction_time = session_start_time

\* C14: no state is terminal: with no session the Start button can be
\* clicked and yields a freshly reset Active session; with a session the End
\* button can be clicked and yields a state with no session (from which the
\* first case applies again), and an interaction can be registered (up to
\* the model's cap on interaction_count).
C14_NoTerminalState ==
    /\ ~session_started => ENABLED UIStart
    /\ ~session_started => ENABLED (UIStart /\ FreshSession')
    /\ session_started => ENABLED UIEnd
    /\ session_started => ENABLED (UIEnd /\ ~session_started')
    /\ (session_started /\ interaction_count < MaxLog) => ENABLED UICheckIn

\* a session restarted after an earlier one ended, at the last clock reading
C14_Witness ==
    /\ last_call.op = "start"
    /\ ~last_call.pre_started
    /\ last_call.pre_len >= 1
    /\ FreshSession
    /\ \A t \in Instants : t <= clock

\* the description is 'Task: ' followed by the text of the task box
IsTask(arg) == arg # <<>> /\ Head(arg) = "Task: "

\* C15: the UI calls start_work_session only when session_started is False,
\* and end_work_session and register_interaction only when it is True, so
\* register_interaction never runs with last_interaction_time cleared; Log
\* Task registers only a description that has a non-whitespace character.
C15_PresentationGuards ==
    [][/\ last_call'.op = "start" => ~session_started
       /\ last_call'.op = "end" => session_started
       /\ last_call'.op = "register" =>
            /\ session_started
            /\ last_interaction_time # None
            /\ IsTask(last_call'.arg) =>
                 \E i \in 2..Len(last_call'.arg) :
                     last_call'.arg[i] \notin {" "}]_vars

\* a Log Task click whose text, padded with a blank, was registered
C15_Witness ==
    /\ last_call.op = "register"
    /\ last_call.pre_started
    /\ IsTask(last_call.arg)
    /\ last_call.arg[2] = " "
    /\ Last(activity_log).action = last_call.arg

\* C16: session_started is True iff session_start_time is set, iff
\* last_interaction_time is set; when set, session_start_time <=
\* last_interaction_time.
C16_LifecycleConsistency ==
    /\ session_started <=> (session_start_time # None)
    /\ session_started <=> (last_interaction_time # None)
    /\ session_started => /\ session_start_time >= 0
                          /\ session_start_time <= last_interaction_time

\* an Active session whose last interaction is later than its start
C16_Witness ==
    /\ session_started
    /\ session_start_time # None
    /\ session_start_time < last_interaction_time
    /\ last_call.op = "register"

\* C17: in every state reachable through the UI, interaction_count equals
\* the length of activity_log.
C17_CountEqualsLogLength ==
    interaction_count = Len(activity_log)

\* the seconds a formatted gap HH:MM:SS stands for
GapSeconds(entry) == entry.gap[1] * 3600 + entry.gap[2] * 60 + entry.gap[3]

HasGap(entry) == "gap" \in DOMAIN entry

\* sum of the gaps of the entries of log whose status is in statuses
RECURSIVE SumGaps(_, _)
SumGaps(log, statuses) ==
    IF log = <<>> THEN 0
    ELSE (IF HasGap(Head(log)) /\ Head(log).status \in statuses
          THEN GapSeconds(Head(log)) ELSE 0)
         + SumGaps(Tail(log), statuses)

\* C18: the status register_interaction writes for a gap is the one
\* get_activity_status returns for it, so every log entry with a gap has
\* status = GapClassifier(gap), total_active_time is the sum of the gaps of
\* the Active entries and total_inactive_time the sum of the gaps of the
\* Short Break and Extended Inactivity entries.
C18_ClassifierAgreement ==
    /\ \A i \in 1..Len(activity_log) :
          HasGap(activity_log[i]) =>
              activity_log[i].status
                  = get_activity_status(GapSeconds(activity_log[i]))
    /\ total_active_time = SumGaps(activity_log, {"Active"})
    /\ total_inactive_time =
          SumGaps(activity_log, {"Short Break", "Extended Inactivity"})

\* a log holding a gap of exactly 60 s, an Extended Inactivity gap and an
\* Active one
C18_Witness ==
    /\ session_started
    /\ Len(activity_log) = 4
    /\ \E i \in 2..4 : /\ activity_log[i].gap = <<0, 1, 0>>
                       /\ activity_log[i].status = "Short Break"
    /\ \E i \in 2..4 : activity_log[i].status = "Extended Inactivity"
    /\ \E i \in 2..4 : activity_log[i].status = "Active"
    /\ total_inactive_time > 60

\* C19: between a StartSession and the next EndSession or StartSession no
\* step changes session_start_time, and it equals the clock reading at which
\* the session was started.
C19_StartTimeImmutable ==
    [][/\ (session_started /\ last_call'.op \notin {"start", "end"}) =>
            session_start_time' = session_start_time
       /\ session_started' => session_start_time' = interaction_times'[1]
       /\ last_call'.op = "start" => session_start_time' = clock']_vars

\* a session with later interactions and a later refresh, start unchanged
C19_Witness ==
    /\ session_started
    /\ last_call.op = "refresh"
    /\ Len(interaction_times) >= 3
    /\ session_start_time = interaction_times[1]
    /\ session_start_time < last_interaction_time
    /\ last_interaction_time < clock

====
